---- MODULE Spec2Model ----
(***************************************************************************)
(* Model of build_software.py: the build plan, the per-target recipes of   *)
(* main's if/elif dispatch, build_paraview, clean_env and the way a        *)
(* failing step either propagates out of main or is caught by the          *)
(* diamorse handler.  One step of a recipe is one call of the source       *)
(* (a subprocess call or a filesystem call); the run blocks on each.       *)
(***************************************************************************)
EXTENDS Integers, Sequences, FiniteSets, TLC

\* ------------------------------------------------------------------------
\* Bounds
\* ------------------------------------------------------------------------
\* number of distinct values an ambient environment variable may hold
MaxEnvVals == 1

\* ------------------------------------------------------------------------
\* The ambient environment (os.environ) and dict helpers
\* ------------------------------------------------------------------------
ValNames == <<"/host/a", "/host/b", "/host/c">>

EnvValues == {ValNames[i] : i \in 1..MaxEnvVals}

ForbiddenKeys == {"PYTHONPATH", "LD_LIBRARY_PATH", "PV_PLUGIN_PATH"}

PrefixKey == "CMAKE_PREFIX_PATH"

EnvKeys == ForbiddenKeys \cup {PrefixKey, "PATH"}

\* the ambient environments of a run: any subset of EnvKeys is set;
\* CMAKE_PREFIX_PATH holds any value, another key that is set the first
Environments ==
    UNION {[ks -> EnvValues] : ks \in SUBSET EnvKeys}
    \ {e \in UNION {[ks -> EnvValues] : ks \in SUBSET EnvKeys} :
          \E k \in (DOMAIN e) \ {PrefixKey} : e[k] # ValNames[1]}

\* d.pop(k, None)
Pop(d, k) == [x \in (DOMAIN d) \ {k} |-> d[x]]

\* d[k] = v
Put(d, k, v) == [x \in (DOMAIN d) \cup {k} |-> IF x = k THEN v ELSE d[x]]

\* clean_env mutating os.environ in place instead of a copy
clean_env_inplace(environ) ==
    LET env == Put(Pop(Pop(Pop(environ, "PYTHONPATH"), "LD_LIBRARY_PATH"),
                       "PV_PLUGIN_PATH"), "CMAKE_PREFIX_PATH", "")
    IN  [ret |-> env, environ |-> env]

\* clean_env(): ret is the returned dict, environ is os.environ after the
\* call (dict(os.environ) is a copy, so os.environ is what it was)
clean_env(environ) ==
    LET env == Put(Pop(Pop(Pop(environ, "PYTHONPATH"), "LD_LIBRARY_PATH"),
                       "PV_PLUGIN_PATH"), "CMAKE_PREFIX_PATH", "")
    IN  [ret |-> env, environ |-> environ]

\* ------------------------------------------------------------------------
\* The build plan
\* ------------------------------------------------------------------------
CoreSofts == <<"dipha", "gudhi", "phat", "DiscreteMorseSandwich">>

extended_softs ==
    <<"CubicalRipser_2dim", "CubicalRipser_3dim", "diamorse", "Eirene.jl",
      "oineus", "ripser", "perseus", "JavaPlex", "PersistenceCycles">>

\* a plan that drops the core catalog in full mode
PlanOf_extended_only(s) == IF ~s THEN extended_softs ELSE CoreSofts

\* a plan that ignores the subset flag
PlanOf_ignores_flag(s) == CoreSofts \o extended_softs

\* softs after the `if not subset` statement
PlanOf(s) == IF ~s THEN CoreSofts \o extended_softs ELSE CoreSofts

\* the unlink forgotten in full mode
MarkerAfter_no_unlink(s, m) == IF ~s THEN m ELSE TRUE

\* .not_all_apps after the `if not subset` statement: unlink(missing_ok) or
\* touch()
MarkerAfter(s, m) == IF ~s THEN FALSE ELSE TRUE

\* ------------------------------------------------------------------------
\* Steps of a recipe
\* ------------------------------------------------------------------------
\* kinds of step that start an external process
ProcessKinds ==
    {"sync", "checkout", "discard", "patch", "configure", "reconfigure",
     "build", "install", "make", "pkg", "javac"}

\* a subprocess.run / subprocess.check_call made by function `by`;
\* envmode "inherit": no env= argument; "clean": env=clean_env();
\* "prefix": env=clean_env() with CMAKE_PREFIX_PATH set to prefix
Run(by, kind, argv, cwd, envmode, prefix) ==
    [by |-> by, kind |-> kind, argv |-> argv, cwd |-> cwd,
     envmode |-> envmode, prefix |-> prefix]

\* a filesystem or download call made in-process by function `by`
Py(by, kind, argv) ==
    [by |-> by, kind |-> kind, argv |-> argv, cwd |-> "",
     envmode |-> "inherit", prefix |-> ""]

create_dir(by, dirname) == Py(by, "mkdir", <<"os.mkdir", dirname>>)

Getcwd == "$PWD"

BuildAndInstall(by, builddir) ==
    Run(by, "install",
        <<"cmake", "--build", builddir, "--target", "install", "--parallel">>,
        "", "inherit", "")

\* build_paraview whose second configure repeats the options
build_paraview_reconf_opts(prefix, vers, opts) ==
    LET pv == "backends_src/paraview-ttk"
        builddir == "build_dirs/paraview_" \o vers
    IN  << create_dir("build_paraview", builddir),
           Run("build_paraview", "checkout", <<"git", "checkout", vers>>,
               pv, "inherit", ""),
           Run("build_paraview", "configure",
               <<"cmake", "-S", pv, "-B", builddir,
                 "-DCMAKE_BUILD_TYPE=Release",
                 "-DCMAKE_INSTALL_PREFIX=" \o prefix>> \o opts,
               "", "clean", ""),
           Run("build_paraview", "reconfigure",
               <<"cmake", builddir>> \o opts, "", "inherit", ""),
           BuildAndInstall("build_paraview", builddir) >>

\* build_paraview(prefix, vers, opts)
build_paraview(prefix, vers, opts) ==
    LET pv == "backends_src/paraview-ttk"
        builddir == "build_dirs/paraview_" \o vers
    IN  << create_dir("build_paraview", builddir),
           Run("build_paraview", "checkout", <<"git", "checkout", vers>>,
               pv, "inherit", ""),
           Run("build_paraview", "configure",
               <<"cmake", "-S", pv, "-B", builddir,
                 "-DCMAKE_BUILD_TYPE=Release",
                 "-DCMAKE_INSTALL_PREFIX=" \o prefix>> \o opts,
               "", "clean", ""),
           Run("build_paraview", "reconfigure",
               <<"cmake", builddir>>, "", "inherit", ""),
           BuildAndInstall("build_paraview", builddir) >>

PERSEUS_URL == "https://people.maths.ox.ac.uk/nanda/source/perseus_4_beta.zip"

PerseusZip == "perseus_4_beta.zip"

JAVAPLEX_URL ==
    "https://github.com/appliedtopology/javaplex/files/2196392/javaplex-processing-lib-4.3.4.zip"

JplexZip == "javaplex-processing-lib-4.3.4.zip"

download_perseus ==
    << Py("download_perseus", "download",
          <<"download_file", PERSEUS_URL, PerseusZip>>),
       create_dir("download_perseus", "perseus"),
       Py("download_perseus", "extract",
          <<"extractall", PerseusZip, "backends_src/perseus">>),
       Py("download_perseus", "remove", <<"os.remove", PerseusZip>>) >>

download_javaplex ==
    << Py("download_javaplex", "download",
          <<"download_file", JAVAPLEX_URL, JplexZip>>),
       create_dir("download_javaplex", "javaplex"),
       Py("download_javaplex", "extract",
          <<"extract", JplexZip, "javaplex/library/javaplex.jar">>),
       Py("download_javaplex", "move",
          <<"os.replace", "javaplex/library/javaplex.jar",
            "backends_src/javaplex.jar">>),
       Py("download_javaplex", "rmdirs",
          <<"os.removedirs", "javaplex/library">>),
       Py("download_javaplex", "remove", <<"os.remove", JplexZip>>) >>

GitApply(soft_src, patches) ==
    Run("main", "patch", <<"git", "apply">> \o patches, soft_src,
        "inherit", "")

Make(soft_src) == Run("main", "make", <<"make">>, soft_src, "inherit", "")

\* both dependent targets installing into the prefix of ParaView 5.10.1
ConfigureInstall_one_prefix(soft_src_arg, builddir, prefix, pvdir) ==
    << create_dir("main", builddir),
       Run("main", "configure",
           <<"cmake", "-S", soft_src_arg, "-B", builddir,
             "-DVTK_DIR=" \o Getcwd \o "/" \o prefix \o "/lib/cmake/" \o pvdir,
             "-DCMAKE_BUILD_TYPE=Release",
             "-DCMAKE_INSTALL_PREFIX=build_dirs/install_paraview_v5.10.1",
             "-DTTK_ENABLE_KAMIKAZE=ON">>,
           "", "prefix", prefix),
       BuildAndInstall("main", builddir) >>

\* the recipe of PersistenceCycles and of DiscreteMorseSandwich after the
\* shared dependency is installed and the patches are applied
ConfigureInstall(soft_src_arg, builddir, prefix, pvdir) ==
    << create_dir("main", builddir),
       Run("main", "configure",
           <<"cmake", "-S", soft_src_arg, "-B", builddir,
             "-DVTK_DIR=" \o Getcwd \o "/" \o prefix \o "/lib/cmake/" \o pvdir,
             "-DCMAKE_BUILD_TYPE=Release",
             "-DCMAKE_INSTALL_PREFIX=" \o prefix,
             "-DTTK_ENABLE_KAMIKAZE=ON">>,
           "", "prefix", prefix),
       BuildAndInstall("main", builddir) >>

\* one build directory shared by every target
BuildDirOf_shared(soft) == "build_dirs/build"

\* builddir = f"build_dirs/{soft}"
BuildDirOf(soft) == "build_dirs/" \o soft

\* the second branch testing for the 3D variant
SecondBranchCond_3dim(soft) == soft = "CubicalRipser_3dim"

\* the condition of the second branch of the chain (`elif` of line 125)
SecondBranchCond(soft) == soft = "CubicalRipser_2dim"

\* the body of the for loop between start and end: the steps the if/elif
\* chain runs for soft, in order
Recipe(soft) ==
    LET soft_src == "backends_src/" \o soft
        builddir == BuildDirOf(soft)
    IN
    IF soft = "CubicalRipser_2dim" THEN
        << Make(soft_src) >>
    ELSE IF SecondBranchCond(soft) THEN
        << create_dir("main", builddir),
           Run("main", "configure", <<"cmake", "..">>, builddir, "inherit", ""),
           Run("main", "make", <<"make">>, builddir, "inherit", "") >>
    ELSE IF soft = "perseus" THEN
        download_perseus
        \o << Py("main", "copy",
                 <<"shutil.copy2", "patches/Makefile.perseus",
                   soft_src \o "/Makefile">>),
              Make(soft_src) >>
    ELSE IF soft = "diamorse" THEN
        << Run("main", "discard", <<"git", "checkout", ".">>, soft_src,
               "inherit", ""),
           GitApply(soft_src,
               <<"../../patches/diamorse_0001-Makefile-Target-Python2.patch",
                 "../../patches/diamorse_0002-persistence.py-Add-Gudhi-format-output.patch">>),
           Run("main", "make", <<"make", "all">>, soft_src, "inherit", "") >>
    ELSE IF soft = "Eirene.jl" THEN
        << Run("main", "pkg",
               <<"julia", "-e", "using Pkg; Pkg.add(\"Eirene\")">>,
               "", "inherit", "") >>
    ELSE IF soft = "JavaPlex" THEN
        download_javaplex
        \o << Run("main", "javac",
                  <<"javac", "-classpath", "backends_src/javaplex.jar",
                    "jplex_persistence.java">>, "", "inherit", "") >>
    ELSE IF soft = "gudhi" THEN
        << create_dir("main", builddir),
           Run("main", "configure",
               <<"cmake", "-DWITH_GUDHI_TEST=OFF",
                 "-DWITH_GUDHI_UTILITIES=OFF", "-DCMAKE_BUILD_TYPE=Release",
                 "-S", soft_src, "-B", builddir>>, "", "inherit", ""),
           Run("main", "build",
               <<"cmake", "--build", builddir, "--parallel">>,
               "", "inherit", "") >>
    ELSE IF soft = "ripser" THEN
        << Make(soft_src) >>
    ELSE IF soft = "PersistenceCycles" THEN
        LET pv_ver == "v5.6.1"
            prefix == "build_dirs/install_paraview_" \o pv_ver
        IN  build_paraview(prefix, pv_ver,
                <<"-DPARAVIEW_BUILD_QT_GUI=OFF",
                  "-DVTK_Group_ParaViewRendering=OFF">>)
            \o << Run("main", "discard", <<"git", "checkout", ".">>,
                      soft_src, "inherit", ""),
                  GitApply(soft_src,
                      <<"../../patches/PersistenceCycles_0001-Fix-Wreturn-type.patch",
                        "../../patches/PersistenceCycles_0003-Output-Diagram-in-Gudhi-format.patch">>) >>
            \o ConfigureInstall(soft_src \o "/ttk-0.9.7", builddir, prefix,
                                "paraview-5.6")
    ELSE IF soft = "DiscreteMorseSandwich" THEN
        LET pv_ver == "v5.10.1"
            prefix == "build_dirs/install_paraview_" \o pv_ver
        IN  build_paraview(prefix, pv_ver,
                <<"-DPARAVIEW_USE_QT=OFF", "-DVTK_Group_ENABLE_Rendering=NO">>)
            \o << GitApply(soft_src,
                      <<"../../patches/DiscreteMorseSandwich_filters.patch">>) >>
            \o ConfigureInstall(soft_src, builddir, prefix, "paraview-5.10")
    ELSE
        (IF soft = "dipha" THEN
            << GitApply(soft_src,
                   <<"../../patches/Dipha_0001-Print-sum-of-ranks-memory-peaks.patch">>) >>
         ELSE IF soft = "oineus" THEN
            << GitApply(soft_src,
                   <<"../../patches/oineus_0001-New-example-file-for-simplicial-complexes.patch">>) >>
         ELSE << >>)
        \o << create_dir("main", builddir),
              Run("main", "configure",
                  <<"cmake", "-S", soft_src, "-B", builddir,
                    "-DCMAKE_BUILD_TYPE=Release">>, "", "inherit", ""),
              Run("main", "build",
                  <<"cmake", "--build", builddir, "--parallel">>,
                  "", "inherit", "") >>

\* ------------------------------------------------------------------------
\* Outcome of one step
\* ------------------------------------------------------------------------
\* how one call can end: a process exits zero or non-zero, or its
\* executable is missing; os.mkdir finds the directory to exist or creates
\* it; copy2 may find source and destination to be the same file
Outcomes(step) ==
    IF step.kind \in ProcessKinds THEN {"ok", "nonzero", "notfound"}
    ELSE IF step.kind = "mkdir" THEN {"ok", "exists"}
    ELSE IF step.kind = "copy" THEN {"ok", "samefile", "error"}
    ELSE {"ok", "error"}

\* the two git submodule calls run without check=True
ExceptionOf_sync_unchecked(step, rc) ==
    IF rc = "ok" \/ (step.kind = "sync" /\ rc = "nonzero") THEN "none"
    ELSE IF rc = "nonzero" THEN "CalledProcessError"
    ELSE IF rc = "notfound" THEN "FileNotFoundError"
    ELSE IF rc = "samefile" THEN "none"
    ELSE IF rc = "exists" THEN "none"
    ELSE "OSError"

\* git apply run without check=True
ExceptionOf_patch_unchecked(step, rc) ==
    IF rc = "ok" \/ step.kind = "patch" THEN "none"
    ELSE IF rc = "nonzero" THEN "CalledProcessError"
    ELSE IF rc = "notfound" THEN "FileNotFoundError"
    ELSE IF rc = "samefile" THEN "none"
    ELSE IF rc = "exists" THEN "none"
    ELSE "OSError"

\* every subprocess call made without check=True
ExceptionOf_unchecked(step, rc) ==
    IF rc = "ok" \/ rc = "nonzero" THEN "none"
    ELSE IF rc = "notfound" THEN "FileNotFoundError"
    ELSE IF rc = "samefile" THEN "none"
    ELSE IF rc = "exists" THEN "none"
    ELSE "OSError"

\* create_dir without its except clause
ExceptionOf_exists_uncaught(step, rc) ==
    IF rc = "ok" THEN "none"
    ELSE IF rc = "nonzero" THEN "CalledProcessError"
    ELSE IF rc = "notfound" THEN "FileNotFoundError"
    ELSE IF rc = "samefile" THEN "none"
    ELSE IF rc = "exists" THEN "FileExistsError"
    ELSE "OSError"

\* the exception a call raises: check=True and check_call turn a non-zero
\* exit into CalledProcessError; SameFileError is caught around copy2 and
\* FileExistsError inside create_dir
ExceptionOf(step, rc) ==
    IF rc = "ok" THEN "none"
    ELSE IF rc = "nonzero" THEN "CalledProcessError"
    ELSE IF rc = "notfound" THEN "FileNotFoundError"
    ELSE IF rc = "samefile" THEN "none"
    ELSE IF rc = "exists" THEN "none"
    ELSE "OSError"

\* a handler around every recipe
Catches_every_target(soft, exc) == exc = "CalledProcessError"

\* no handler at all
Catches_nothing(soft, exc) == FALSE

\* the handler also around the two targets that call build_paraview
Catches_shared_dependents(soft, exc) ==
    /\ soft \in {"diamorse", "DiscreteMorseSandwich", "PersistenceCycles"}
    /\ exc = "CalledProcessError"

\* the try/except of the diamorse branch
Catches(soft, exc) == soft = "diamorse" /\ exc = "CalledProcessError"

\* an interpreter that always exits zero
ExitCodeOf_always_zero(exc) == 0

\* exit status of the interpreter: 1 when an exception leaves main
ExitCodeOf(exc) == IF exc = "none" THEN 0 ELSE 1

\* the override of CMAKE_PREFIX_PATH forgotten
EnvOf_no_override(step, environ) ==
    IF step.envmode \in {"clean", "prefix"} THEN clean_env(environ).ret
    ELSE environ

\* the environment a step's process is started with
EnvOf(step, environ) ==
    IF step.envmode = "clean" THEN clean_env(environ).ret
    ELSE IF step.envmode = "prefix"
         THEN Put(clean_env(environ).ret, "CMAKE_PREFIX_PATH", step.prefix)
    ELSE environ

\* os.environ after the step
EnvironAfter(step, environ) ==
    IF step.envmode \in {"clean", "prefix"} THEN clean_env(environ).environ
    ELSE environ

\* a file `name` in directory `dir` ("" is the working directory)
File(dir, name) == [dir |-> dir, name |-> name]

\* the files of fs that are directly in directory d
FilesIn(fs, d) == {f \in fs : f.dir = d}

\* whether a call can end with rc in the present workspace: os.mkdir
\* raises FileExistsError exactly when the directory exists; os.removedirs
\* raises OSError when the leaf directory is not empty
Feasible(step, rc, ds, fs) ==
    /\ step.kind = "mkdir" => ((rc = "exists") <=> (step.argv[2] \in ds))
    /\ (step.kind = "rmdirs" /\ rc = "ok") => FilesIn(fs, step.argv[2]) = {}

\* directories after a successful step: os.mkdir creates one, the zip
\* extraction creates the directories of its members, os.removedirs
\* removes the leaf and then its parent if that is empty too
DirsAfter(step, ds, fs) ==
    IF step.kind = "mkdir" THEN ds \cup {step.argv[2]}
    ELSE IF step.kind = "extract" /\ step.argv[1] = "extractall"
         THEN ds \cup {step.argv[3]}
    ELSE IF step.kind = "extract"
         THEN ds \cup {"javaplex", "javaplex/library"}
    ELSE IF step.kind = "rmdirs"
         THEN IF FilesIn(fs, "javaplex") = {}
              THEN ds \ {"javaplex/library", "javaplex"}
              ELSE ds \ {"javaplex/library"}
    ELSE ds

\* the argument after -B
BuildDirArg(argv) == argv[(CHOOSE k \in DOMAIN argv : argv[k] = "-B") + 1]

\* prefix = f"build_dirs/install_paraview_{pv_ver}" of the two callers
InstallPrefixes ==
    {"build_dirs/install_paraview_v5.6.1",
     "build_dirs/install_paraview_v5.10.1"}

\* the install prefixes the last configure of builddir was given with
\* -DCMAKE_INSTALL_PREFIX (what cmake keeps in the cache of builddir)
InstallPrefixOf(lg, builddir) ==
    LET cs == {j \in DOMAIN lg :
                  /\ lg[j].kind = "configure"
                  /\ "-B" \in {lg[j].argv[k] : k \in DOMAIN lg[j].argv}
                  /\ BuildDirArg(lg[j].argv) = builddir}
    IN  IF cs = {} THEN {}
        ELSE LET last == CHOOSE j \in cs : \A k \in cs : k <= j
             IN  {p \in InstallPrefixes :
                     \E k \in DOMAIN lg[last].argv :
                         lg[last].argv[k] = "-DCMAKE_INSTALL_PREFIX=" \o p}

\* files after a successful step of the recipe of soft, lg being the calls
\* made before it: downloads and extractions write their files, a
\* configure writes the cache of its build directory, a build writes its
\* artifacts where it runs, an install also writes into the install prefix
FilesAfter(soft, step, fs, lg) ==
    IF step.kind = "download" THEN fs \cup {File("", step.argv[3])}
    ELSE IF step.kind = "extract" /\ step.argv[1] = "extractall"
         THEN fs \cup {File(step.argv[3], "members")}
    ELSE IF step.kind = "extract"
         THEN fs \cup {File("javaplex/library", "javaplex.jar")}
    ELSE IF step.kind = "move"
         THEN (fs \ {File("javaplex/library", "javaplex.jar")})
              \cup {File("backends_src", "javaplex.jar")}
    ELSE IF step.kind = "remove" THEN fs \ {File("", step.argv[2])}
    ELSE IF step.kind = "copy"
         THEN fs \cup {File("backends_src/" \o soft, "Makefile")}
    ELSE IF step.kind = "configure"
         THEN fs \cup {File(IF step.cwd = "" THEN BuildDirArg(step.argv)
                             ELSE step.cwd, "CMakeCache.txt")}
    ELSE IF step.kind = "build" THEN fs \cup {File(step.argv[3], "artifacts")}
    ELSE IF step.kind = "install"
         THEN fs \cup {File(step.argv[3], "artifacts")}
                 \cup {File(p, "installed") :
                          p \in InstallPrefixOf(lg, step.argv[3])}
    ELSE IF step.kind = "make" THEN fs \cup {File(step.cwd, "artifacts")}
    ELSE IF step.kind = "javac"
         THEN fs \cup {File("", "jplex_persistence.class")}
    ELSE fs

\* the workspaces a run may start in: a fresh checkout, and two left by
\* earlier runs with files of their own in the build root and in the
\* directories the fetch helpers use
Workspaces ==
    LET used == {"build_dirs", "perseus", "backends_src/perseus", "javaplex"}
    IN  { [dirs |-> {}, files |-> {}],
          [dirs |-> used,
           files |-> {File(d, "unrelated") : d \in used}],
          [dirs |-> used \cup {"javaplex/library"},
           files |-> {File(d, "unrelated") :
                         d \in used \cup {"javaplex/library"}}] }

\* ------------------------------------------------------------------------
\* State
\* ------------------------------------------------------------------------
VARIABLES
    pc,        \* position in main
    subset,    \* the argument of main
    softs,     \* the plan
    idx,       \* index in softs of the next value of the loop variable soft
    stepno,    \* index in Recipe(soft) of the next call
    marker,    \* whether .not_all_apps exists
    environ,   \* os.environ
    dirs,      \* directories that exist
    files,     \* files that exist
    log,       \* the calls made so far, each with its environment and outcome
    output,    \* the lines printed so far
    raised,    \* the exception that left main, or "none"
    exitCode   \* exit status of the process, -1 while it runs

vars == <<pc, subset, softs, idx, stepno, marker, environ, dirs, files, log,
          output, raised, exitCode>>

Line(msg, soft) == [msg |-> msg, soft |-> soft]

Entry(soft, step, env, rc) ==
    [soft |-> soft, by |-> step.by, kind |-> step.kind, argv |-> step.argv,
     cwd |-> step.cwd, envmode |-> step.envmode, prefix |-> step.prefix,
     env |-> env, rc |-> rc]

SyncUpdateStep ==
    Run("main", "sync",
        <<"git", "submodule", "update", "--init", "--recursive">>,
        "", "inherit", "")

SyncResetStep ==
    Run("main", "sync",
        <<"git", "submodule", "foreach", "git", "checkout", "--", ".">>,
        "", "inherit", "")

Init ==
    /\ pc = "start"
    /\ subset \in BOOLEAN
    /\ softs = CoreSofts
    /\ idx = 1
    /\ stepno = 0
    /\ marker \in BOOLEAN
    /\ environ \in Environments
    /\ \E w \in Workspaces : dirs = w.dirs /\ files = w.files
    /\ log = << >>
    /\ output = << >>
    /\ raised = "none"
    /\ exitCode = -1

\* an exception leaves main: the interpreter exits
Abort(exc) ==
    /\ pc' = "done"
    /\ raised' = exc
    /\ exitCode' = ExitCodeOf(exc)

\* the `if not subset` statement
SelectPlan ==
    /\ pc = "start"
    /\ softs' = PlanOf(subset)
    /\ marker' = MarkerAfter(subset, marker)
    /\ pc' = "sync_update"
    /\ UNCHANGED <<subset, idx, stepno, environ, dirs, files, log, output,
                   raised, exitCode>>

\* a call made before the loop
PreStep(step, next) ==
    /\ \E rc \in Outcomes(step) :
        /\ Feasible(step, rc, dirs, files)
        /\ log' = Append(log, Entry("", step, EnvOf(step, environ), rc))
        /\ IF ExceptionOf(step, rc) = "none"
           THEN /\ pc' = next
                /\ dirs' = DirsAfter(step, dirs, files)
                /\ files' = FilesAfter("", step, files, log)
                /\ UNCHANGED <<raised, exitCode>>
           ELSE /\ Abort(ExceptionOf(step, rc))
                /\ UNCHANGED <<dirs, files>>
    /\ environ' = EnvironAfter(step, environ)
    /\ UNCHANGED <<subset, softs, idx, stepno, marker, output>>

\* git submodule update --init --recursive
SyncUpdate ==
    /\ pc = "sync_update"
    /\ PreStep(SyncUpdateStep, "sync_reset")

\* git submodule foreach git checkout -- .
SyncReset ==
    /\ pc = "sync_reset"
    /\ PreStep(SyncResetStep, "mkroot")

\* create_dir("build_dirs")
CreateBuildRoot ==
    /\ pc = "mkroot"
    /\ PreStep(create_dir("main", "build_dirs"), "loop")

\* the head of the for loop with a target left: print "Building soft..."
StartTarget ==
    /\ pc = "loop"
    /\ idx <= Len(softs)
    /\ output' = Append(output, Line("Building", softs[idx]))
    /\ stepno' = 1
    /\ pc' = "recipe"
    /\ UNCHANGED <<subset, softs, idx, marker, environ, dirs, files, log,
                   raised, exitCode>>

\* a handler that goes on to the next target without the Built line
Returned_no_built_after_recovery(soft, exc) ==
    IF exc = "none" THEN << Line("Built", soft) >>
    ELSE << Line("Missing", soft) >>

\* the lines printed when the recipe of soft returns, after exception exc
\* was caught inside it (or none was raised)
Returned(soft, exc) ==
    (IF exc = "none" THEN << >> ELSE << Line("Missing", soft) >>)
    \o << Line("Built", soft) >>

\* the next call of the recipe of the current target
RunStep ==
    /\ pc = "recipe"
    /\ LET soft == softs[idx]
           steps == Recipe(soft)
           step == steps[stepno]
       IN  \E rc \in Outcomes(step) :
           LET exc == ExceptionOf(step, rc) IN
           /\ Feasible(step, rc, dirs, files)
           /\ log' = Append(log, Entry(soft, step, EnvOf(step, environ), rc))
           /\ environ' = EnvironAfter(step, environ)
           /\ IF exc = "none" /\ stepno < Len(steps)
              THEN \* the next call of the same recipe
                   /\ stepno' = stepno + 1
                   /\ dirs' = DirsAfter(step, dirs, files)
                   /\ files' = FilesAfter(soft, step, files, log)
                   /\ UNCHANGED <<pc, idx, output, raised, exitCode>>
              ELSE IF exc = "none" \/ Catches(soft, exc)
              THEN \* the recipe returns: print "Built soft in N seconds"
                   /\ output' = output \o Returned(soft, exc)
                   /\ dirs' = IF exc = "none"
                              THEN DirsAfter(step, dirs, files) ELSE dirs
                   /\ files' = IF exc = "none"
                               THEN FilesAfter(soft, step, files, log)
                               ELSE files
                   /\ idx' = idx + 1
                   /\ stepno' = 0
                   /\ pc' = "loop"
                   /\ UNCHANGED <<raised, exitCode>>
              ELSE \* the exception leaves the loop and main
                   /\ Abort(exc)
                   /\ UNCHANGED <<idx, stepno, output, dirs, files>>
    /\ UNCHANGED <<subset, softs, marker>>

\* the for loop is exhausted: main returns
ExitLoop ==
    /\ pc = "loop"
    /\ idx > Len(softs)
    /\ pc' = "done"
    /\ exitCode' = ExitCodeOf("none")
    /\ UNCHANGED <<subset, softs, idx, stepno, marker, environ, dirs, files,
                   log,
                   output, raised>>

Next ==
    \/ SelectPlan
    \/ SyncUpdate
    \/ SyncReset
    \/ CreateBuildRoot
    \/ StartTarget
    \/ RunStep
    \/ ExitLoop

Spec == Init /\ [][Next]_vars

\* ------------------------------------------------------------------------
\* Observations on a run
\* ------------------------------------------------------------------------
Range(q) == {q[i] : i \in DOMAIN q}

IsBuilding(l) == l.msg = "Building"

\* the targets whose build has been started, in order
Started ==
    LET b == SelectSeq(output, IsBuilding)
    IN  [i \in 1..Len(b) |-> b[i].soft]

IsPrefix(a, b) ==
    /\ Len(a) <= Len(b)
    /\ \A i \in 1..Len(a) : a[i] = b[i]

\* a is a strict subset of b and its elements keep the order they have in b
\* (each element of a comes in b before the element that follows it in a)
StrictOrderedSubset(a, b) ==
    /\ Range(a) \subseteq Range(b)
    /\ Range(b) \ Range(a) # {}
    /\ \A i \in 1..(Len(a) - 1) : \A y \in DOMAIN b :
          b[y] = a[i + 1] => \A x \in DOMAIN b : b[x] = a[i] => x < y

\* the recipe of t returned without any of its calls failing
Succeeded(t) ==
    /\ Line("Built", t) \in Range(output)
    /\ Line("Missing", t) \notin Range(output)
    /\ \A i \in DOMAIN log : log[i].soft = t => log[i].rc \in {"ok", "samefile", "exists"}

\* a call of the recipe of a target ended in a non-zero exit
NonZeroAt(i) ==
    /\ log[i].soft # ""
    /\ log[i].kind \in ProcessKinds
    /\ log[i].rc = "nonzero"

DiamorseMakeFailedAt(i) ==
    /\ log[i].soft = "diamorse"
    /\ log[i].argv = <<"make", "all">>
    /\ log[i].rc = "nonzero"

\* ------------------------------------------------------------------------
\* Claims
\* ------------------------------------------------------------------------

\* C1: for every target other than diamorse, a non-zero exit of one of the
\* calls of its recipe halts the run: that call is the last call ever made,
\* the run is over, and the failed target is the last one started, so no
\* step of a later target is started.
C1_NonZeroExitHaltsRun ==
    \A i \in DOMAIN log :
        (NonZeroAt(i) /\ log[i].soft # "diamorse")
        => /\ i = Len(log)
           /\ pc = "done"
           /\ Started # << >>
           /\ Started[Len(Started)] = log[i].soft

\* a run of the full plan halted by a failing build of gudhi
C1_Witness ==
    /\ ~subset
    /\ pc = "done"
    /\ \E i \in DOMAIN log :
          NonZeroAt(i) /\ log[i].soft = "gudhi" /\ log[i].kind = "build"

\* C2: a non-zero exit of diamorse's make all does not abort the run: the
\* diagnostic is printed, no exception leaves the loop, the target the loop
\* goes on with is Eirene.jl, and a run that is over has started Eirene.jl.
C2_DiamorseFailureRecovered ==
    \A i \in DOMAIN log :
        DiamorseMakeFailedAt(i)
        => /\ Line("Missing", "diamorse") \in Range(output)
           /\ i = Len(log) =>
                 /\ pc \in {"loop", "recipe"}
                 /\ raised = "none"
                 /\ exitCode = -1
                 /\ softs[idx] = "Eirene.jl"
           /\ pc = "done" => "Eirene.jl" \in Range(Started)

\* make all of diamorse failed and Eirene.jl has been built after it
C2_Witness ==
    /\ \E i \in DOMAIN log : DiamorseMakeFailedAt(i)
    /\ Line("Built", "Eirene.jl") \in Range(output)

\* C3: in every state after plan selection the marker file exists if and
\* only if subset mode was selected.
C3_MarkerIffSubset == pc # "start" => (marker <=> subset)

\* a full-mode run that aborted, with the marker absent
C3_Witness ==
    /\ pc = "done"
    /\ raised # "none"
    /\ ~subset
    /\ ~marker

\* C4: the core-only plan is a strict subset of the full plan and keeps the
\* order: the plan of a subset run against the full plan, and the core
\* plan against the plan of a full run.
C4_CorePlanStrictOrderedSubset ==
    pc # "start"
    => IF subset THEN StrictOrderedSubset(softs, PlanOf(FALSE))
       ELSE StrictOrderedSubset(PlanOf(TRUE), softs)

\* a full plan has been selected, longer than the core plan
C4_Witness ==
    /\ pc # "start"
    /\ ~subset
    /\ Len(softs) > Len(PlanOf(TRUE))

\* C5: the targets started are a prefix of the plan; a target other than
\* the first is started right after the line that reports the previous
\* target of the plan built; every call belongs to a started target and
\* the call after it to the same target or to the one started next; a
\* subset run that ends without failure has started exactly
\* the core catalog, in order, and no extended target.
C5_SequentialPlanOrder ==
    /\ IsPrefix(Started, softs)
    /\ \A k \in DOMAIN output :
          (IsBuilding(output[k]) /\ output[k].soft # softs[1])
          => /\ k > 1
             /\ output[k - 1].msg = "Built"
             /\ \E j \in 2..Len(softs) :
                   /\ softs[j] = output[k].soft
                   /\ softs[j - 1] = output[k - 1].soft
    /\ LET st == Started
       IN  \A i \in DOMAIN log :
              log[i].soft # ""
              => \E x \in DOMAIN st :
                    /\ st[x] = log[i].soft
                    /\ i < Len(log)
                       => \/ log[i + 1].soft = st[x]
                          \/ x < Len(st) /\ log[i + 1].soft = st[x + 1]
    /\ (pc = "done" /\ subset /\ raised = "none")
       => /\ Started = CoreSofts
          /\ Range(Started) \cap Range(extended_softs) = {}

\* a subset run that ended with every step succeeding
C5_Witness ==
    /\ pc = "done"
    /\ subset
    /\ raised = "none"
    /\ \A i \in DOMAIN log : log[i].rc \in {"ok", "samefile", "exists"}
    /\ Len(Started) = 4

Sanitized(env) == DOMAIN env \cap ForbiddenKeys = {}

\* C6: every external process of a recipe or of the shared-dependency
\* builder is started with an environment without PYTHONPATH,
\* LD_LIBRARY_PATH and PV_PLUGIN_PATH.
C6_EveryProcessSanitized ==
    \A i \in DOMAIN log :
        (log[i].soft # "" /\ log[i].kind \in ProcessKinds)
        => Sanitized(log[i].env)

\* C7: the environment returned by clean_env has none of the three keys,
\* has CMAKE_PREFIX_PATH (empty, or the prefix where the caller overrode
\* it), keeps every other key of the ambient environment with its value and
\* adds none; the ambient environment never changes.
C7_CleanEnv ==
    /\ [](\A i \in DOMAIN log :
            log[i].envmode \in {"clean", "prefix"}
            => /\ Sanitized(log[i].env)
               /\ PrefixKey \in DOMAIN log[i].env
               /\ log[i].env[PrefixKey] =
                     (IF log[i].envmode = "clean" THEN "" ELSE log[i].prefix)
               /\ (DOMAIN log[i].env) \ {PrefixKey}
                     = (DOMAIN environ) \ (ForbiddenKeys \cup {PrefixKey})
               /\ \A k \in (DOMAIN log[i].env) \ {PrefixKey} :
                     log[i].env[k] = environ[k])
    /\ [][environ' = environ]_vars

\* clean_env was called, with and without the override, in an ambient
\* environment that has a forbidden key, a prefix path and another key
C7_Witness ==
    /\ "PV_PLUGIN_PATH" \in DOMAIN environ
    /\ PrefixKey \in DOMAIN environ
    /\ "PATH" \in DOMAIN environ
    /\ \E i, j \in DOMAIN log :
          log[i].envmode = "clean" /\ log[j].envmode = "prefix"

\* the options after the seven fixed arguments of the first configure
ExtraOptions(argv) == {argv[k] : k \in (DOMAIN argv) \ (1..7)}

ByBuilder(i, kind) ==
    /\ i \in DOMAIN log
    /\ log[i].by = "build_paraview"
    /\ log[i].kind = kind

\* C8: in every call of build_paraview the calls are made in the order
\* checkout, configure, re-configure, build-and-install; the re-configure
\* is cmake on the build directory of the first configure and carries none
\* of the extra options.
C8_BuilderOrderAndReconfigure ==
    \A i \in DOMAIN log :
        /\ ByBuilder(i, "configure")
           => /\ ByBuilder(i - 1, "checkout")
              /\ Cardinality(ExtraOptions(log[i].argv)) = 2
        /\ ByBuilder(i, "reconfigure")
           => /\ ByBuilder(i - 1, "configure")
              /\ log[i].argv = <<"cmake", BuildDirArg(log[i - 1].argv)>>
              /\ ExtraOptions(log[i - 1].argv) \cap Range(log[i].argv) = {}
        /\ ByBuilder(i, "install")
           => /\ ByBuilder(i - 1, "reconfigure")
              /\ log[i].argv[3] = log[i - 1].argv[2]

\* both calls of build_paraview have made their re-configure
C8_Witness ==
    \E i, j \in DOMAIN log :
        /\ ByBuilder(i, "reconfigure")
        /\ ByBuilder(j, "install")
        /\ log[i].soft = "DiscreteMorseSandwich"
        /\ log[j].soft = "PersistenceCycles"

DMSPatchFailedAt(i) ==
    /\ log[i].soft = "DiscreteMorseSandwich"
    /\ log[i].kind = "patch"
    /\ log[i].rc = "nonzero"

\* C9: in a full-mode run where the patch of DiscreteMorseSandwich fails,
\* the run is over at once: the patch is the last call ever made (no
\* configure, build or install of the target), DiscreteMorseSandwich is the
\* last target started, and dipha, gudhi and phat have succeeded.
C9_DMSPatchFailureAborts ==
    \A i \in DOMAIN log :
        (~subset /\ DMSPatchFailedAt(i))
        => /\ i = Len(log)
           /\ pc = "done"
           /\ raised = "CalledProcessError"
           /\ Started = CoreSofts
           /\ \A t \in {"dipha", "gudhi", "phat"} : Succeeded(t)
           /\ Line("Built", "DiscreteMorseSandwich") \notin Range(output)

\* a full-mode run in which that patch has failed
C9_Witness ==
    /\ ~subset
    /\ \E i \in DOMAIN log : DMSPatchFailedAt(i)

\* a call failed and the failure was not a non-zero exit inside the recipe
\* of diamorse
FatalFailureOccurred ==
    \E i \in DOMAIN log :
        /\ log[i].rc \notin {"ok", "samefile", "exists"}
        /\ ~(log[i].soft = "diamorse" /\ log[i].rc = "nonzero")

\* C10: when the run is over the exit code is non-zero if and only if a
\* fatal failure occurred; a run whose only failure is the recovered one of
\* diamorse exits with zero.
C10_ExitCodeIffFatal ==
    pc = "done" => ((exitCode # 0) <=> FatalFailureOccurred)

\* a run that ended with exit code zero although diamorse failed
C10_Witness ==
    /\ pc = "done"
    /\ exitCode = 0
    /\ \E i \in DOMAIN log : log[i].soft = "diamorse" /\ log[i].rc = "nonzero"

\* C11: the two submodule calls are made once each, as the first two calls
\* of the run and for no target; no call of a recipe is made and the loop
\* is not entered before both have exited zero.
C11_SyncOnceBeforeLoop ==
    /\ \A i \in DOMAIN log :
          log[i].kind = "sync"
          => /\ i <= 2
             /\ log[i].soft = ""
             /\ log[i].argv = (IF i = 1 THEN SyncUpdateStep.argv
                               ELSE SyncResetStep.argv)
    /\ (pc \in {"mkroot", "loop", "recipe"} \/ output # << >>
        \/ \E i \in DOMAIN log : log[i].soft # "")
       => /\ Len(log) >= 2
          /\ \A i \in 1..2 : log[i].kind = "sync" /\ log[i].rc = "ok"

\* calls of two targets have been made after the synchronization
C11_Witness ==
    /\ Len(log) > 2
    /\ log[1].kind = "sync"
    /\ log[2].kind = "sync"
    /\ \E i, j \in DOMAIN log :
          log[i].soft = "dipha" /\ log[j].soft = "gudhi"

\* call i installs into prefix p: it is an install of a build directory
\* whose last configure before it named p as the install prefix
WritesPrefix(i, p) ==
    /\ log[i].kind = "install"
    /\ p \in InstallPrefixOf(SubSeq(log, 1, i - 1), log[i].argv[3])

\* C12 as stated: only calls of build_paraview write into an install prefix.
C12_PrefixWrittenOnlyByBuilder ==
    \A i \in DOMAIN log : \A p \in InstallPrefixes :
        WritesPrefix(i, p) => log[i].by = "build_paraview"

\* C12 as amended: an install prefix is written first by the install of
\* build_paraview; every later write is the install step of the same
\* target, made by main after that install of build_paraview exited zero;
\* no call of another target writes into it.
C12_PrefixWrittenByBuilderThenOwner ==
    \A i \in DOMAIN log : \A p \in InstallPrefixes :
        WritesPrefix(i, p)
        => \/ /\ log[i].by = "build_paraview"
              /\ \A j \in 1..(i - 1) : ~WritesPrefix(j, p)
           \/ /\ log[i].by = "main"
              /\ \E j \in 1..(i - 1) :
                    /\ WritesPrefix(j, p)
                    /\ log[j].by = "build_paraview"
                    /\ log[j].rc = "ok"
                    /\ log[j].soft = log[i].soft
              /\ \A j \in 1..(i - 1) :
                    WritesPrefix(j, p) => log[j].soft = log[i].soft

\* both prefixes have been written by build_paraview and then by the
\* install step of the dependent target
C12_Witness ==
    \A p \in InstallPrefixes :
        \E j \in DOMAIN log :
            /\ log[j].by = "main"
            /\ WritesPrefix(j, p)
            /\ \E i \in 1..(j - 1) :
                  log[i].by = "build_paraview" /\ WritesPrefix(i, p)

\* the last call made, and whether this step made it
LastCall == log[Len(log)]

CallMade == Len(log') = Len(log) + 1

\* C13: os.mkdir finding its directory to exist never ends the run and
\* changes neither the directories nor the files; no step removes a file
\* that was in the workspace before the run and that the run did not write
\* (the fetch helpers included).
C13_ExistingDirsAndFilesKept ==
    /\ [](\A i \in DOMAIN log :
            log[i].rc = "exists"
            => /\ log[i].kind = "mkdir"
               /\ i = Len(log) => raised = "none")
    /\ [][(CallMade /\ LastCall'.rc = "exists")
          => (dirs' = dirs /\ files' = files /\ LastCall'.argv[2] \in dirs)]_vars
    /\ [][\A f \in files : f.name = "unrelated" => f \in files']_vars

\* both fetch helpers have returned in a workspace where their
\* directories existed, and the files that were there are still there
C13_Witness ==
    /\ pc = "recipe"
    /\ LastCall.kind = "javac"
    /\ \E i \in DOMAIN log :
          log[i].by = "download_perseus" /\ log[i].rc = "exists"
    /\ \E i \in DOMAIN log :
          log[i].by = "download_javaplex" /\ log[i].rc = "exists"
    /\ \E i \in DOMAIN log :
          log[i].kind = "extract" /\ log[i].argv[1] = "extractall"
          /\ log[i].rc = "ok"
    /\ {File(d, "unrelated") :
           d \in {"perseus", "backends_src/perseus", "javaplex"}}
       \subseteq files

\* the targets that come before t in the plan
PlannedBefore(t) ==
    {softs[k] : k \in {k \in DOMAIN softs :
                          \E m \in DOMAIN softs : k < m /\ softs[m] = t}}

DiscardFailedAt(i) == log[i].kind = "discard" /\ log[i].rc = "nonzero"

\* C14 as stated: a failing discard of local modifications is ignored in
\* silence: the run does not end on it, no diagnostic is printed for the
\* target, and the patch of the target is applied after it.
C14_DiscardFailureIgnored ==
    \A i \in DOMAIN log :
        DiscardFailedAt(i)
        => /\ ~(i = Len(log) /\ pc = "done")
           /\ Line("Missing", log[i].soft) \notin Range(output)
           /\ Line("Built", log[i].soft) \in Range(output)
              => \E j \in (i + 1)..Len(log) :
                    log[j].soft = log[i].soft /\ log[j].kind = "patch"

PatchFailedAt(i) == log[i].kind = "patch" /\ log[i].rc = "nonzero"

\* C15: when git apply exits non-zero for a target, no later call is made
\* for that target, the targets before it in the plan have their Built
\* line, and no printed line is ever taken back.
C15_PatchFailureStopsTarget ==
    /\ [](\A i \in DOMAIN log :
            PatchFailedAt(i)
            => /\ \A j \in (i + 1)..Len(log) : log[j].soft # log[i].soft
               /\ \A t \in PlannedBefore(log[i].soft) :
                     Line("Built", t) \in Range(output))
    /\ [][IsPrefix(output, output')]_vars

\* the patch of oineus failed after diamorse, whose patch failed too, and
\* the run ended
C15_Witness ==
    /\ pc = "done"
    /\ PatchFailedAt(Len(log))
    /\ LastCall.soft = "oineus"
    /\ \E i \in DOMAIN log : PatchFailedAt(i) /\ log[i].soft = "diamorse"

BuilderFailedAt(i) ==
    /\ log[i].by = "build_paraview"
    /\ log[i].kind \in {"checkout", "configure", "reconfigure", "install"}
    /\ log[i].rc = "nonzero"

\* C16: when a call of build_paraview exits non-zero the run is over: it is
\* the last call ever made, CalledProcessError has left main, and the
\* target that called build_paraview is the last one started.
C16_BuilderFailureEndsRun ==
    \A i \in DOMAIN log :
        BuilderFailedAt(i)
        => /\ i = Len(log)
           /\ pc = "done"
           /\ raised = "CalledProcessError"
           /\ exitCode = 1
           /\ LET st == Started IN st[Len(st)] = log[i].soft
           /\ Line("Built", log[i].soft) \notin Range(output)

\* the re-configure of build_paraview failed for DiscreteMorseSandwich in
\* a full-mode run
C16_Witness ==
    /\ ~subset
    /\ log # << >>
    /\ BuilderFailedAt(Len(log))
    /\ LastCall.kind = "reconfigure"
    /\ LastCall.soft = "DiscreteMorseSandwich"

SharedDependents == {"DiscreteMorseSandwich", "PersistenceCycles"}

\* the version of the shared dependency each dependent target is pinned to
PinnedVersion(t) == IF t = "DiscreteMorseSandwich" THEN "v5.10.1" ELSE "v5.6.1"

PinnedPrefix(t) == "build_dirs/install_paraview_" \o PinnedVersion(t)

\* call j is the install of build_paraview for target t, exited zero, into
\* the prefix of t, after a checkout of the pinned version
SharedInstalledAt(j, t) ==
    /\ log[j].by = "build_paraview"
    /\ log[j].kind = "install"
    /\ log[j].soft = t
    /\ log[j].rc = "ok"
    /\ WritesPrefix(j, PinnedPrefix(t))
    /\ \E c \in 1..(j - 1) :
          /\ log[c].by = "build_paraview"
          /\ log[c].soft = t
          /\ log[c].argv = <<"git", "checkout", PinnedVersion(t)>>

\* C17: for DiscreteMorseSandwich and PersistenceCycles every patch,
\* configure and install made by main comes after build_paraview has
\* installed the pinned version into the prefix; the configure comes after
\* the patch, has the sanitized environment with CMAKE_PREFIX_PATH set to
\* that prefix and names it as install prefix; the install follows the
\* configure and writes into the same prefix.
C17_SharedDependentOrder ==
    \A i \in DOMAIN log :
        (log[i].by = "main" /\ log[i].soft \in SharedDependents
         /\ log[i].kind \in {"patch", "configure", "install"})
        => LET t == log[i].soft
               P == PinnedPrefix(t)
           IN  /\ \E j \in 1..(i - 1) : SharedInstalledAt(j, t)
               /\ log[i].kind = "configure"
                  => /\ \E k \in 1..(i - 1) :
                           /\ log[k].soft = t
                           /\ log[k].kind = "patch"
                           /\ log[k].rc = "ok"
                     /\ log[i].envmode = "prefix"
                     /\ Sanitized(log[i].env)
                     /\ PrefixKey \in DOMAIN log[i].env
                     /\ log[i].env[PrefixKey] = P
                     /\ ("-DCMAKE_INSTALL_PREFIX=" \o P) \in Range(log[i].argv)
               /\ log[i].kind = "install"
                  => /\ log[i - 1].by = "main"
                     /\ log[i - 1].kind = "configure"
                     /\ log[i - 1].rc = "ok"
                     /\ log[i].argv[3] = BuildDirArg(log[i - 1].argv)
                     /\ WritesPrefix(i, P)

\* both dependent targets have made their own install
C17_Witness ==
    /\ log # << >>
    /\ LastCall.by = "main"
    /\ LastCall.kind = "install"
    /\ LastCall.soft = "PersistenceCycles"
    /\ \E i \in DOMAIN log :
          /\ log[i].by = "main"
          /\ log[i].kind = "install"
          /\ log[i].soft = "DiscreteMorseSandwich"

\* the kinds of call a recipe ends with
FinalKinds == {"make", "build", "install", "pkg", "javac"}

\* the calls main made that end a recipe
FinalCalls ==
    {i \in DOMAIN log : log[i].by = "main" /\ log[i].kind \in FinalKinds}

BuildDirTargets ==
    {"dipha", "gudhi", "phat", "DiscreteMorseSandwich", "CubicalRipser_3dim",
     "oineus", "PersistenceCycles"}

HasBuildDir(t) ==
    /\ ("build_dirs/" \o t) \in dirs
    /\ File("build_dirs/" \o t, "artifacts") \in files

\* C19 as stated: every target whose recipe has returned has
\* build_dirs/<target> with its build artifacts in it.
C19_EveryTargetHasBuildDir ==
    \A t \in Range(softs) :
        Line("Built", t) \in Range(output) => HasBuildDir(t)

\* C19 as amended: that holds for the targets built with cmake -B; no step
\* creates build_dirs/<target> for any other target; the build directory
\* a call of main names is that of its own target, and build_paraview
\* names none of them, nor is an install prefix one of them.
C19_CMakeTargetsHaveBuildDir ==
    /\ [](\A t \in BuildDirTargets :
            Line("Built", t) \in Range(output) => HasBuildDir(t))
    /\ [](\A i \in DOMAIN log :
            "-B" \in Range(log[i].argv)
            => /\ log[i].by = "main"
                  => BuildDirArg(log[i].argv) = "build_dirs/" \o log[i].soft
               /\ \A t \in Range(softs) :
                     /\ log[i].by = "build_paraview"
                        => BuildDirArg(log[i].argv) # "build_dirs/" \o t
                     /\ ("build_dirs/" \o t) \notin InstallPrefixes)
    /\ [][\A t \in Range(softs) \ BuildDirTargets :
             ("build_dirs/" \o t) \in dirs' => ("build_dirs/" \o t) \in dirs]_vars

\* a full-mode run has built every target: the seven cmake targets have
\* their build directory and CubicalRipser_2dim has none
C19_Witness ==
    /\ pc = "done"
    /\ ~subset
    /\ raised = "none"
    /\ \A t \in BuildDirTargets : HasBuildDir(t)
    /\ "build_dirs/CubicalRipser_2dim" \notin dirs

\* the recipe of t has returned: the call that ends it exited zero, or a
\* call of diamorse exited non-zero
RecipeReturned(t) ==
    \E i \in DOMAIN log :
        /\ log[i].soft = t
        /\ \/ log[i].by = "main" /\ log[i].kind \in FinalKinds
              /\ log[i].rc = "ok"
           \/ t = "diamorse" /\ log[i].rc = "nonzero"

\* C20: every call of a recipe comes after the Building line of its
\* target; the line after a Building line is about the same target; a Built
\* line is printed once, after the Building line of its target, and the
\* line after it is the Building line of another target; a started target
\* has its Built line if and only if its recipe has returned, and the
\* target whose failure ended the run has none.
C20_BuildingAndBuiltLines ==
    /\ LET out == Range(output)
       IN  \A i \in DOMAIN log :
              log[i].soft # "" => Line("Building", log[i].soft) \in out
    /\ \A k \in DOMAIN output :
          /\ (output[k].msg = "Building" /\ k < Len(output))
             => /\ output[k + 1].soft = output[k].soft
                /\ output[k + 1].msg # "Building"
          /\ output[k].msg = "Built"
             => /\ \E b \in 1..(k - 1) :
                      output[b] = Line("Building", output[k].soft)
                /\ \A m \in DOMAIN output : output[m] = output[k] => m = k
                /\ k < Len(output)
                   => /\ output[k + 1].msg = "Building"
                      /\ output[k + 1].soft # output[k].soft
    /\ LET st == Started
           out == Range(output)
       IN  /\ \A x \in DOMAIN st :
                 Line("Built", st[x]) \in out <=> RecipeReturned(st[x])
           /\ (pc = "done" /\ raised # "none" /\ st # << >>)
              => Line("Built", st[Len(st)]) \notin out

\* a run that printed Built for the recovered diamorse and then ended on
\* a failure of a later target
C20_Witness ==
    /\ pc = "done"
    /\ raised # "none"
    /\ Line("Missing", "diamorse") \in Range(output)
    /\ Line("Built", "diamorse") \in Range(output)
    /\ LastCall.soft = "ripser"

====
